---- MODULE Spec2Model ----
(***************************************************************************)
(* A model of the nom-tutorial crate (src/src/lib.rs): the nom parsers of  *)
(* one line of /proc/mounts, the Display form of a Mount and the two       *)
(* iterators over Mounts.  A string is a sequence of one-character         *)
(* strings.  A parser result (nom::IResult) is a record: ok = TRUE with    *)
(* the remaining input `rest` and the output `out`, or ok = FALSE with the *)
(* input the error points at (`rest`) and its nom ErrorKind (`kind`).      *)
(***************************************************************************)
EXTENDS Integers, Sequences, FiniteSets, TLC

VARIABLES
    pc,         \* the parsers the test driver has still to call on its input
    input,      \* the &str handed to transform_escaped, parse_line and parse_line_alternate
    opts,       \* the &str handed to mount_opts
    decoded,    \* what transform_escaped returned
    optsResult, \* what mount_opts returned
    result,     \* what parse_line returned
    altResult   \* what parse_line_alternate returned

VARIABLES
    source,     \* what the BufReader's lines() yields: a line or a read error each
    ownState,   \* the Mounts that is consumed: "mounts", or "iter" after into_iter()
    ownPos,     \* the next unread item of its BufReader
    ownOut,     \* what the MountsIntoIterator's next() has returned, in order
    mutState,   \* the Mounts that is borrowed: "mounts", or "borrowed" while a MountsIteratorMut lives
    mutPos,     \* the next unread item of its BufReader
    mutOut,     \* what the MountsIteratorMuts' next() have returned, in order
    mutBy,      \* the MountsIteratorMuts, by number, that have returned an item
    consumed,   \* for each of those calls, how many items it took from the BufReader
    iterCount,  \* the MountsIteratorMuts created so far
    mainPc,     \* where main() is: "next", "body", "exit" ("idle": not running)
    printed     \* the lines main() has printed

parseVars == <<pc, input, opts, decoded, optsResult, result, altResult>>

iterVars == <<source, ownState, ownPos, ownOut, mutState, mutPos, mutOut,
              mutBy, consumed, iterCount, mainPc, printed>>

vars == <<parseVars, iterVars>>

\* ------------------------------------------------------------ characters
BS == "\\"
SP == " "
TAB == "\t"
COMMA == ","
ZERO == "0"
FOUR == "4"

NoResult == [ok |-> FALSE, rest |-> <<>>, kind |-> "none"]

Ok(rest, out) == [ok |-> TRUE, rest |-> rest, out |-> out]
Err(rest, kind) == [ok |-> FALSE, rest |-> rest, kind |-> kind]

\* i.slice(n..): the input without its first n characters
Drop(i, n) == SubSeq(i, n + 1, Len(i))
\* i.slice(..n)
Take(i, n) == SubSeq(i, 1, n)

\* the length of the longest prefix of i all of whose characters are in S
SpanIn(S, i) ==
    CHOOSE n \in 0..Len(i) :
        /\ \A k \in 1..n : i[k] \in S
        /\ n = Len(i) \/ i[n + 1] \notin S

\* Body(x) with x bound to the value of e, which is computed once
With(e, Body(_)) == CHOOSE v \in {Body(x) : x \in {e}} : TRUE

\* ------------------------------------------------------- nom primitives
\* nom::bytes::complete::is_not(chars): the longest non-empty run of
\* characters none of which is in chars
is_not(chars, i) ==
    With(SpanIn({i[k] : k \in 1..Len(i)} \ chars, i), LAMBDA n :
        IF n = 0 THEN Err(i, "IsNot") ELSE Ok(Drop(i, n), Take(i, n)))

\* nom::character::complete::space1: one or more spaces or tabs
space1(i) ==
    With(SpanIn({SP, TAB}, i), LAMBDA n :
        IF n = 0 THEN Err(i, "Space") ELSE Ok(Drop(i, n), Take(i, n)))

\* nom::character::complete::space0: zero or more spaces or tabs
space0(i) ==
    With(SpanIn({SP, TAB}, i), LAMBDA n : Ok(Drop(i, n), Take(i, n)))

\* nom::character::complete::char(c)
char(c, i) ==
    IF Len(i) > 0 /\ i[1] = c THEN Ok(Drop(i, 1), c) ELSE Err(i, "Char")

\* nom::bytes::complete::tag(t)
tag(t, i) ==
    IF Len(i) >= Len(t) /\ Take(i, Len(t)) = t
    THEN Ok(Drop(i, Len(t)), t)
    ELSE Err(i, "Tag")

\* nom::combinator::value(v, parser) applied to what the parser returned
value(v, r) == IF r.ok THEN Ok(r.rest, v) ELSE r

\* ------------------------------------------------------------- parsers
not_whitespace_space_only(i) == is_not({SP}, i)

\* nom::bytes::complete::is_not(" \t")
not_whitespace(i) == is_not({SP, TAB}, i)

escaped_space_tag40(i) == value(<<SP>>, tag(<<FOUR, ZERO>>, i))

\* value(" ", tag("040"))
escaped_space(i) == value(<<SP>>, tag(<<ZERO, FOUR, ZERO>>, i))

\* nom::combinator::recognize(parser) applied to what the parser returned
\* on i: the part of i the parser consumed
recognize(i, r) == IF r.ok THEN Ok(r.rest, Take(i, Len(i) - Len(r.rest))) ELSE r

\* recognize(char('\\')): the backslash itself, as a &str
escaped_backslash(i) == recognize(i, char(BS, i))

\* nom::branch::alt((escaped_backslash, escaped_space)): the first parser
\* that succeeds, else the error of the last one
alt_escapes(i) ==
    With(escaped_backslash(i), LAMBDA a :
        IF a.ok THEN a ELSE escaped_space(i))

\* the loop of nom::bytes::complete::escaped_transform with
\* normal = is_not("\\"), control_char = '\\', transform = alt_escapes:
\* index is the offset reached in i, res the output built so far
RECURSIVE escaped_transform(_, _, _)
escaped_transform(i, index, res) ==
    IF index >= Len(i) THEN Ok(Drop(i, index), res)
    ELSE With(Drop(i, index), LAMBDA remainder :
         With(is_not({BS}, remainder), LAMBDA n :
            IF n.ok
            THEN IF Len(n.rest) = 0
                 THEN Ok(<<>>, res \o n.out)
                 ELSE escaped_transform(i, Len(i) - Len(n.rest), res \o n.out)
            ELSE IF remainder[1] = BS
            THEN IF index + 1 >= Len(i)
                 THEN Err(remainder, "EscapedTransform")
                 ELSE With(alt_escapes(Drop(i, index + 1)), LAMBDA t :
                        IF ~t.ok THEN t
                        ELSE IF Len(t.rest) = 0
                        THEN Ok(<<>>, res \o t.out)
                        ELSE escaped_transform(i, Len(i) - Len(t.rest),
                                               res \o t.out))
            ELSE Ok(remainder, res)))

transform_escaped(i) == escaped_transform(i, 0, <<>>)

map_transform_escaped_off(first) == first

\* nom::combinator::map_parser(first, transform_escaped) applied to what
\* `first` returned: the token is decoded whole, the remaining input is first's
map_transform_escaped(first) ==
    IF ~first.ok THEN first
    ELSE With(transform_escaped(first.out), LAMBDA second :
            IF second.ok THEN Ok(first.rest, second.out) ELSE second)

\* map_parser(not_whitespace, transform_escaped): device and mount_point
escaped_token(i) ==
    With(not_whitespace(i), LAMBDA first : map_transform_escaped(first))

opt_piece_keeps_commas(i) ==
    With(is_not({SP, TAB}, i), LAMBDA first : map_transform_escaped(first))

\* map_parser(is_not(", \t"), transform_escaped): one option
opt_piece(i) ==
    With(is_not({COMMA, SP, TAB}, i), LAMBDA first :
        map_transform_escaped(first))

\* the loop of nom::multi::separated_list(char(','), opt_piece): i is the
\* input after the last element, res the elements so far
RECURSIVE separated_list_loop(_, _)
separated_list_loop(i, res) ==
    With(char(COMMA, i), LAMBDA s :
        IF ~s.ok THEN Ok(i, res)
        ELSE IF s.rest = i THEN Err(s.rest, "SeparatedList")
        ELSE With(opt_piece(s.rest), LAMBDA f :
                IF ~f.ok THEN Ok(i, res)
                ELSE IF f.rest = i THEN Err(f.rest, "SeparatedList")
                ELSE With(Append(res, f.out), LAMBDA pushed :
                        separated_list_loop(f.rest, pushed))))

\* nom::multi::separated_list: a first element that fails is an empty list
separated_list(i) ==
    With(opt_piece(i), LAMBDA f :
        IF ~f.ok THEN Ok(i, <<>>)
        ELSE IF f.rest = i THEN Err(f.rest, "SeparatedList")
        ELSE separated_list_loop(f.rest, <<f.out>>))

mount_opts(i) == separated_list(i)

all_consuming_off(r) == r

\* nom::combinator::all_consuming applied to what the inner parser returned
all_consuming(r) ==
    IF r.ok /\ Len(r.rest) > 0 THEN Err(r.rest, "Eof") ELSE r

Mount(device, mount_point, file_system_type, options) ==
    [device |-> device, mount_point |-> mount_point,
     file_system_type |-> file_system_type, options |-> options]

\* one step of nom::sequence::tuple: parser P on what the parser before it
\* left, or that parser's error
Then(r, P(_)) == With(r, LAMBDA x : IF x.ok THEN P(x.rest) ELSE x)

zero(i) == char(ZERO, i)

zeros_tuple_space1(i) ==
    LET ws4 == space1(i)
        z1 == Then(ws4, zero)
        ws5 == Then(z1, space1)
        z2 == Then(ws5, zero)
    IN  Then(z2, space1)

\* tuple((space1, char('0'), space1, char('0'), space0))
zeros_tuple(i) ==
    LET ws4 == space1(i)
        z1 == Then(ws4, zero)
        ws5 == Then(z1, space1)
        z2 == Then(ws5, zero)
    IN  Then(z2, space0)

\* all_consuming(tuple((device, space1, ..., '0', space0))): one tuple of
\* twelve parsers, each run on what the one before it left
parse_line(i) ==
    LET device == escaped_token(i)
        ws1 == Then(device, space1)
        mount_point == Then(ws1, escaped_token)
        ws2 == Then(mount_point, space1)
        file_system_type == Then(ws2, not_whitespace)
        ws3 == Then(file_system_type, space1)
        options == Then(ws3, mount_opts)
        ws4 == Then(options, space1)
        z1 == Then(ws4, zero)
        ws5 == Then(z1, space1)
        z2 == Then(ws5, zero)
        ws6 == Then(z2, space0)
    IN  With(all_consuming(ws6), LAMBDA r :
            IF r.ok
            THEN Ok(r.rest, Mount(device.out, mount_point.out,
                                  file_system_type.out, options.out))
            ELSE r)

\* one statement per field, each returning early on an error (the ?
\* operator), then all_consuming(tuple((space1, '0', space1, '0', space0)))
parse_line_alternate(i) ==
    With(escaped_token(i), LAMBDA device :
    IF ~device.ok THEN device ELSE
    With(space1(device.rest), LAMBDA ws1 :
    IF ~ws1.ok THEN ws1 ELSE
    With(escaped_token(ws1.rest), LAMBDA mount_point :
    IF ~mount_point.ok THEN mount_point ELSE
    With(space1(mount_point.rest), LAMBDA ws2 :
    IF ~ws2.ok THEN ws2 ELSE
    With(not_whitespace(ws2.rest), LAMBDA file_system_type :
    IF ~file_system_type.ok THEN file_system_type ELSE
    With(space1(file_system_type.rest), LAMBDA ws3 :
    IF ~ws3.ok THEN ws3 ELSE
    With(mount_opts(ws3.rest), LAMBDA options :
    IF ~options.ok THEN options ELSE
    With(all_consuming(zeros_tuple(options.rest)), LAMBDA zeros :
    IF ~zeros.ok THEN zeros
    ELSE Ok(zeros.rest, Mount(device.out, mount_point.out,
                              file_system_type.out, options.out))))))))))

\* ------------------------------------------------------ Display for Mount
RECURSIVE join(_, _)
\* self.options.join(",")
join(strs, sep) ==
    IF Len(strs) = 0 THEN <<>>
    ELSE IF Len(strs) = 1 THEN strs[1]
    ELSE strs[1] \o sep \o join(Tail(strs), sep)

fmt_joined_by_space(m) ==
    m.device \o <<SP, "o", "n", SP>> \o m.mount_point
        \o <<SP, "t", "y", "p", "e", SP>> \o m.file_system_type
        \o <<SP, "(">> \o join(m.options, <<SP>>) \o <<")">>

\* write!(f, "{} on {} type {} ({})", ...)
fmt(m) ==
    m.device \o <<SP, "o", "n", SP>> \o m.mount_point
        \o <<SP, "t", "y", "p", "e", SP>> \o m.file_system_type
        \o <<SP, "(">> \o join(m.options, <<COMMA>>) \o <<")">>

\* ------------------------------------------------------------ iterators
\* Mount::default(), standing for "no Mount" in a value returned by next()
NoMount == Mount(<<>>, <<>>, <<>>, <<>>)

None == [tag |-> "None", mount |-> NoMount, err |-> "none"]
SomeOk(m) == [tag |-> "Ok", mount |-> m, err |-> "none"]
SomeErr(e) == [tag |-> "Err", mount |-> NoMount, err |-> e]

\* an item of std::io::Lines: Ok(line) or Err(io::Error)
ReadOk(line) == [read |-> "ok", line |-> line]
ReadErr == [read |-> "err", line |-> <<>>]

\* self.lines.next(): the item at the reader's position, which moves past it
lines_next(src, pos) ==
    IF pos > Len(src) THEN [some |-> FALSE, item |-> ReadErr, pos |-> pos]
    ELSE [some |-> TRUE, item |-> src[pos], pos |-> pos + 1]

MountsIntoIterator_next_fused(src, pos) ==
    With(lines_next(src, pos), LAMBDA l :
        [pos |-> l.pos,
         ret |-> IF ~l.some THEN None
                 ELSE IF l.item.read = "ok"
                 THEN With(parse_line(l.item.line), LAMBDA p :
                        IF p.ok THEN SomeOk(p.out) ELSE None)
                 ELSE SomeErr("io::Error")])

\* MountsIntoIterator::next: the value returned and the reader's new position
MountsIntoIterator_next(src, pos) ==
    With(lines_next(src, pos), LAMBDA l :
        [pos |-> l.pos,
         ret |-> IF ~l.some THEN None
                 ELSE IF l.item.read = "ok"
                 THEN With(parse_line(l.item.line), LAMBDA p :
                        IF p.ok THEN SomeOk(p.out) ELSE SomeErr("ParseError"))
                 ELSE SomeErr("io::Error")])

MountsIteratorMut_next_one_error(src, pos) ==
    With(lines_next(src, pos), LAMBDA l :
        [pos |-> l.pos,
         ret |-> IF ~l.some THEN None
                 ELSE IF l.item.read = "ok"
                 THEN With(parse_line(l.item.line), LAMBDA p :
                        IF p.ok THEN SomeOk(p.out) ELSE SomeErr("ParseError"))
                 ELSE SomeErr("ParseError")])

\* MountsIteratorMut::next
MountsIteratorMut_next(src, pos) ==
    With(lines_next(src, pos), LAMBDA l :
        [pos |-> l.pos,
         ret |-> IF ~l.some THEN None
                 ELSE IF l.item.read = "ok"
                 THEN With(parse_line(l.item.line), LAMBDA p :
                        IF p.ok THEN SomeOk(p.out) ELSE SomeErr("ParseError"))
                 ELSE SomeErr("io::Error")])

iter_mut_reopened(pos) == 1

\* <&mut Mounts>::into_iter, Mounts::iter_mut: self.buf_reader.by_ref().lines()
\* reads on from where the BufReader is
iter_mut(pos) == pos

\* ----------------------------------------------------------------- inputs
MaxDecodeLen == 7
MaxTokLen == 2
MaxOptLen == 4
MaxWsLen == 2
MaxTailLen == 6

StringsUpTo(A, n) == UNION {[1..k -> A] : k \in 0..n}

Escaped040 == <<BS, ZERO, FOUR, ZERO>>

\* tokens for the decoder: every string of a plain character, the backslash
\* and the digits of the octal escape
DecodeInputs == StringsUpTo({"a", BS, ZERO, FOUR}, MaxDecodeLen)

\* tokens for device, mount_point and file_system_type: plain, escaped,
\* badly escaped and empty
Tokens ==
    StringsUpTo({"a", BS}, MaxTokLen)
        \cup {Escaped040, <<"a">> \o Escaped040 \o <<"a">>}

\* options tokens: plain, escaped, badly escaped, with commas anywhere
OptTokens ==
    StringsUpTo({"a", COMMA, BS}, MaxOptLen)
        \cup {<<"a", COMMA>> \o Escaped040, <<"a">> \o Escaped040 \o <<"a", COMMA, "a">>,
              <<"a", COMMA, "a", COMMA, "a", COMMA, "a">>}

Whitespace == StringsUpTo({SP, TAB}, MaxWsLen)

\* what follows the options token
Tails == StringsUpTo({SP, ZERO, "a"}, MaxTailLen)

A1 == <<"a">>
S1 == <<SP>>
Zeros == <<SP, ZERO, SP, ZERO>>

Line(t1, w1, t2, w2, t3, w3, t4, tail) ==
    t1 \o w1 \o t2 \o w2 \o t3 \o w3 \o t4 \o tail

\* the lines given to parse_line: each family varies some parts of the line
\* over all of their values and holds the others to a few
LineInputs ==
    {Line(t1, S1, t2, S1, t3, S1, t4, Zeros) :
        t1 \in Tokens, t2 \in Tokens, t3 \in Tokens,
        t4 \in {A1, <<"a", COMMA, BS, BS>>}}
    \cup {Line(A1, S1, A1, S1, A1, S1, t4, tail) :
        t4 \in OptTokens, tail \in {Zeros, Zeros \o <<TAB>>, <<SP, ZERO>>}}
    \cup {Line(A1, w1, A1, w2, <<BS, "a">>, w3, <<"a", COMMA, "a">>, Zeros) :
        w1 \in Whitespace, w2 \in Whitespace, w3 \in Whitespace}
    \cup {Line(A1, S1, Escaped040, S1, A1, S1, t4, tail) :
        t4 \in {A1, <<"a", COMMA, "a">>}, tail \in Tails}

\* what mount_opts is given: an options token and what follows it in the line
OptInputs ==
    {t4 \o tail : t4 \in OptTokens, tail \in {<<>>, Zeros}}

\* --------------------------------------------------------- the test driver
TransformEscaped ==
    /\ "transform_escaped" \in pc
    /\ decoded' = transform_escaped(input)
    /\ pc' = pc \ {"transform_escaped"}
    /\ UNCHANGED <<input, opts, optsResult, result, altResult>>
    /\ UNCHANGED iterVars

MountOpts ==
    /\ "mount_opts" \in pc
    /\ optsResult' = mount_opts(opts)
    /\ pc' = pc \ {"mount_opts"}
    /\ UNCHANGED <<input, opts, decoded, result, altResult>>
    /\ UNCHANGED iterVars

ParseLine ==
    /\ "parse_line" \in pc
    /\ result' = parse_line(input)
    /\ pc' = pc \ {"parse_line"}
    /\ UNCHANGED <<input, opts, decoded, optsResult, altResult>>
    /\ UNCHANGED iterVars

ParseLineAlternate ==
    /\ "parse_line_alternate" \in pc
    /\ altResult' = parse_line_alternate(input)
    /\ pc' = pc \ {"parse_line_alternate"}
    /\ UNCHANGED <<input, opts, decoded, optsResult, result>>
    /\ UNCHANGED iterVars

NoResults ==
    /\ decoded = NoResult
    /\ optsResult = NoResult
    /\ result = NoResult
    /\ altResult = NoResult

\* no Mounts exists
NoMounts ==
    /\ source = <<>>
    /\ ownState = "none"
    /\ ownPos = 1
    /\ ownOut = <<>>
    /\ mutState = "none"
    /\ mutPos = 1
    /\ mutOut = <<>>
    /\ mutBy = {}
    /\ consumed = <<>>
    /\ iterCount = 0
    /\ mainPc = "idle"
    /\ printed = <<>>

\* transform_escaped on every token
InitDecode ==
    /\ pc = {"transform_escaped"}
    /\ input \in DecodeInputs
    /\ opts = <<>>
    /\ NoResults
    /\ NoMounts

NextDecode == TransformEscaped

SpecDecode == InitDecode /\ [][NextDecode]_vars

\* mount_opts on an options token and what follows it, and parse_line on a
\* line that holds them
InitOpts ==
    /\ pc = {"mount_opts", "parse_line"}
    /\ opts \in OptInputs
    /\ input = <<"a", SP, "a", SP, "a", SP>> \o opts
    /\ NoResults
    /\ NoMounts

NextOpts == MountOpts \/ ParseLine

SpecOpts == InitOpts /\ [][NextOpts]_vars

\* parse_line and parse_line_alternate on every line
InitLine ==
    /\ pc = {"parse_line", "parse_line_alternate"}
    /\ input \in LineInputs
    /\ opts = <<>>
    /\ NoResults
    /\ NoMounts

NextLine == ParseLine \/ ParseLineAlternate

SpecLine == InitLine /\ [][NextLine]_vars

\* ------------------------------------------------- the iterators' callers
MaxSource == 3
MaxExtraCalls == 1
MaxIters == 2

OtherLine == <<"a">> \o Escaped040 \o <<TAB, "a", SP, "a", SP, "a", COMMA, "a">> \o Zeros
BadLine == <<"a", SP, "a", SP, "a", SP, BS>> \o Zeros

SourceItems == {ReadOk(OtherLine), ReadOk(BadLine), ReadErr}

Sources == UNION {[1..n -> SourceItems] : n \in 0..MaxSource}

\* <Mounts as IntoIterator>::into_iter
IntoIter ==
    /\ ownState = "mounts"
    /\ ownState' = "iter"
    /\ UNCHANGED <<source, ownPos, ownOut, mutState, mutPos, mutOut, mutBy,
                   consumed, iterCount, mainPc, printed>>
    /\ UNCHANGED parseVars

\* a caller's call of MountsIntoIterator::next
NextInto ==
    /\ ownState = "iter"
    /\ mainPc = "idle"
    /\ Len(ownOut) < Len(source) + MaxExtraCalls
    /\ LET r == MountsIntoIterator_next(source, ownPos)
       IN  /\ ownPos' = r.pos
           /\ ownOut' = Append(ownOut, r.ret)
    /\ UNCHANGED <<source, ownState, mutState, mutPos, mutOut, mutBy,
                   consumed, iterCount, mainPc, printed>>
    /\ UNCHANGED parseVars

\* Mounts::iter_mut, while no other MountsIteratorMut borrows the Mounts
IterMut ==
    /\ mutState = "mounts"
    /\ iterCount < MaxIters
    /\ mutState' = "borrowed"
    /\ mutPos' = iter_mut(mutPos)
    /\ iterCount' = iterCount + 1
    /\ UNCHANGED <<source, ownState, ownPos, ownOut, mutOut, mutBy, consumed,
                   mainPc, printed>>
    /\ UNCHANGED parseVars

\* a caller's call of MountsIteratorMut::next
NextMut ==
    /\ mutState = "borrowed"
    /\ Len(mutOut) < Len(source) + MaxExtraCalls
    /\ LET r == MountsIteratorMut_next(source, mutPos)
       IN  /\ mutPos' = r.pos
           /\ mutOut' = Append(mutOut, r.ret)
           /\ consumed' = Append(consumed, r.pos - mutPos)
           /\ mutBy' = IF r.ret.tag = "None" THEN mutBy
                        ELSE mutBy \cup {iterCount}
    /\ UNCHANGED <<source, ownState, ownPos, ownOut, mutState, iterCount,
                   mainPc, printed>>
    /\ UNCHANGED parseVars

\* the MountsIteratorMut goes out of scope: the borrow ends
DropIterMut ==
    /\ mutState = "borrowed"
    /\ mutState' = "mounts"
    /\ UNCHANGED <<source, ownState, ownPos, ownOut, mutPos, mutOut, mutBy,
                   consumed, iterCount, mainPc, printed>>
    /\ UNCHANGED parseVars

NoParse ==
    /\ pc = {}
    /\ input = <<>>
    /\ opts = <<>>
    /\ NoResults

\* two Mounts over the same items, one consumed, one borrowed
InitIter ==
    /\ NoParse
    /\ source \in Sources
    /\ ownState = "mounts"
    /\ ownPos = 1
    /\ ownOut = <<>>
    /\ mutState = "mounts"
    /\ mutPos = 1
    /\ mutOut = <<>>
    /\ mutBy = {}
    /\ consumed = <<>>
    /\ iterCount = 0
    /\ mainPc = "idle"
    /\ printed = <<>>

NextIter == IntoIter \/ NextInto \/ IterMut \/ NextMut \/ DropIterMut

SpecIter == InitIter /\ [][NextIter]_vars

\* ------------------------------------------------------------------ main
MaxSegs == 2

EscapedOn == Escaped040 \o <<"o", "n">> \o Escaped040

RECURSIVE Flatten(_)
Flatten(segs) == IF Len(segs) = 0 THEN <<>> ELSE Head(segs) \o Flatten(Tail(segs))

\* device tokens for main: runs of "a" and of an escaped " on "
DisplayTokens ==
    {Flatten(segs) : segs \in UNION {[1..n -> {A1, EscapedOn}] : n \in 1..MaxSegs}}

\* mount_point tokens that start or end with the escaped " on "
DisplayMountPoints == {A1, EscapedOn, EscapedOn \o A1, A1 \o EscapedOn}

DisplayLines ==
    {Line(t1, S1, t2, S1, A1, S1, A1, Zeros) :
        t1 \in DisplayTokens, t2 \in DisplayMountPoints}
    \cup {Line(A1, S1, A1, S1, t3, S1, t4, Zeros) :
        t3 \in {A1, <<"a", "a">>},
        t4 \in {A1, <<"a", COMMA, "a">>, <<"a">> \o Escaped040 \o <<"a">>,
                <<"a">> \o Escaped040 \o <<"a", COMMA, "a">>,
                <<"a", COMMA, "a">> \o Escaped040 \o <<"a">>}}
    \cup {Line(<<"(", "a", ")">>, S1, A1, S1, A1, S1, A1, Zeros), BadLine}

\* for mount in mounts()? { ... }: the call of next() at the head of the loop
MainNext ==
    /\ mainPc = "next"
    /\ ownState = "iter"
    /\ LET r == MountsIntoIterator_next(source, ownPos)
       IN  /\ ownPos' = r.pos
           /\ ownOut' = Append(ownOut, r.ret)
           /\ mainPc' = IF r.ret.tag = "None" THEN "exit" ELSE "body"
    /\ UNCHANGED <<source, ownState, mutState, mutPos, mutOut, mutBy,
                   consumed, iterCount, printed>>
    /\ UNCHANGED parseVars

\* println!("{}", mount?): print the Mount, or return its error
MainPrint ==
    /\ mainPc = "body"
    /\ LET item == ownOut[Len(ownOut)]
       IN  IF item.tag = "Ok"
           THEN /\ printed' = Append(printed, fmt(item.mount))
                /\ mainPc' = "next"
           ELSE /\ printed' = printed
                /\ mainPc' = "exit"
    /\ UNCHANGED <<source, ownState, ownPos, ownOut, mutState, mutPos, mutOut,
                   mutBy, consumed, iterCount>>
    /\ UNCHANGED parseVars

\* main() over a mount table of two lines
InitMain ==
    /\ NoParse
    /\ \E l1 \in DisplayLines, l2 \in DisplayLines :
           source = <<ReadOk(l1), ReadOk(l2)>>
    /\ ownState = "mounts"
    /\ ownPos = 1
    /\ ownOut = <<>>
    /\ mutState = "none"
    /\ mutPos = 1
    /\ mutOut = <<>>
    /\ mutBy = {}
    /\ consumed = <<>>
    /\ iterCount = 0
    /\ mainPc = "next"
    /\ printed = <<>>

NextMain == IntoIter \/ MainNext \/ MainPrint

SpecMain == InitMain /\ [][NextMain]_vars

\* ------------------------------------------------ the grammar, restated
\* The reference decoder of the Escape Decoder, one character at a time.
RECURSIVE RefDecode(_)
RefDecode(s) ==
    IF Len(s) = 0 THEN [ok |-> TRUE, out |-> <<>>]
    ELSE IF s[1] # BS
    THEN LET r == RefDecode(Drop(s, 1))
         IN  [ok |-> r.ok, out |-> <<s[1]>> \o r.out]
    ELSE IF Len(s) >= 2 /\ s[2] = BS
    THEN LET r == RefDecode(Drop(s, 2))
         IN  [ok |-> r.ok, out |-> <<BS>> \o r.out]
    ELSE IF Len(s) >= 4 /\ SubSeq(s, 2, 4) = <<ZERO, FOUR, ZERO>>
    THEN LET r == RefDecode(Drop(s, 4))
         IN  [ok |-> r.ok, out |-> <<SP>> \o r.out]
    ELSE [ok |-> FALSE, out |-> <<>>]

\* the pieces of s between the characters of seps, empty pieces kept
RECURSIVE SplitOn(_, _)
SplitOn(seps, s) ==
    IF \A k \in 1..Len(s) : s[k] \notin seps THEN <<s>>
    ELSE LET k == CHOOSE j \in 1..Len(s) :
                      s[j] \in seps /\ \A h \in 1..(j - 1) : s[h] \notin seps
         IN  <<Take(s, k - 1)>> \o SplitOn(seps, Drop(s, k))

NonEmpty(s) == s # <<>>

\* the whitespace-separated tokens of a line
Fields(line) == SelectSeq(SplitOn({SP, TAB}, line), NonEmpty)

Pieces(token) == SplitOn({COMMA}, token)

Decodable(s) == RefDecode(s).ok

DecodeAll(pieces) == [k \in 1..Len(pieces) |-> RefDecode(pieces[k]).out]

\* <t1> ws+ <t2> ws+ <t3> ws+ <t4> ws+ 0 ws+ 0 ws*
SixFieldForm(line) ==
    /\ SplitOn({SP, TAB}, line)[1] # <<>>
    /\ Len(Fields(line)) = 6
    /\ Fields(line)[5] = <<ZERO>>
    /\ Fields(line)[6] = <<ZERO>>

ExpectedMount(line) ==
    LET F == Fields(line)
    IN  Mount(RefDecode(F[1]).out, RefDecode(F[2]).out, F[3],
              DecodeAll(Pieces(F[4])))

DecodableFields(line) ==
    LET F == Fields(line)
    IN  /\ Decodable(F[1])
        /\ Decodable(F[2])
        /\ \A k \in 1..Len(Pieces(F[4])) : Decodable(Pieces(F[4])[k])

Done(op) == op \notin pc

\* ------------------------------------------------------------------ C2
\* C2: transform_escaped agrees with the reference decoder on every input:
\* both fail or both succeed, and on success the output is the reference
\* output and the remaining input is empty; the empty string decodes to the
\* empty string.
C2_DecodeAgreesWithReference ==
    Done("transform_escaped") =>
        /\ decoded.ok = RefDecode(input).ok
        /\ decoded.ok => /\ decoded.out = RefDecode(input).out
                         /\ decoded.rest = <<>>
        /\ input = <<>> => decoded.ok /\ decoded.out = <<>>

\* a run, an escaped space, an escaped backslash have been decoded
C2_Witness ==
    /\ Done("transform_escaped")
    /\ input = <<"a">> \o Escaped040 \o <<BS, BS>>
    /\ decoded.ok
    /\ decoded.out = <<"a", SP, BS>>

\* ------------------------------------------------------------------ C1
\* C1 as claimed: every line of the six-field form whose device, mount_point
\* and option pieces are decodable is accepted with empty remaining input and
\* the Mount of its decoded fields, file_system_type verbatim.
C1_AsClaimed ==
    (Done("parse_line") /\ SixFieldForm(input) /\ DecodableFields(input)) =>
        /\ result.ok
        /\ result.rest = <<>>
        /\ result.out = ExpectedMount(input)

NoEmptyPiece(token) ==
    \A k \in 1..Len(Pieces(token)) : Pieces(token)[k] # <<>>

\* C1, amended: every line of the six-field form whose device, mount_point
\* and option pieces are decodable, and whose options token has no empty
\* piece, is accepted with empty remaining input and the Mount of its decoded
\* fields: file_system_type verbatim, options in order with duplicates kept.
C1_ValidLineParses ==
    (/\ Done("parse_line")
     /\ SixFieldForm(input)
     /\ DecodableFields(input)
     /\ NoEmptyPiece(Fields(input)[4])) =>
        /\ result.ok
        /\ result.rest = <<>>
        /\ result.out = ExpectedMount(input)

\* a line with tabs, a backslash in file_system_type and a repeated option
C1_Witness ==
    /\ Done("parse_line")
    /\ SixFieldForm(input)
    /\ \E k \in 1..Len(input) : input[k] = TAB
    /\ result.ok
    /\ result.out.file_system_type = <<BS, "a">>
    /\ result.out.options = <<A1, A1>>

\* ------------------------------------------------------------------ C3
\* the options token: what precedes the first whitespace of mount_opts' input
OptToken == SplitOn({SP, TAB}, opts)[1]

SomePieceUndecodable(token) ==
    \E k \in 1..Len(Pieces(token)) : ~Decodable(Pieces(token)[k])

\* the pieces before the first one that is empty or undecodable
GoodPrefix(pieces) ==
    LET bad == {k \in 1..Len(pieces) :
                    pieces[k] = <<>> \/ ~Decodable(pieces[k])}
        n == IF bad = {} THEN Len(pieces)
             ELSE (CHOOSE k \in bad : \A j \in bad : k <= j) - 1
    IN  SubSeq(pieces, 1, n)

C4_AcceptedOnlyWithZeros ==
    (Done("parse_line") /\ result.ok) => SixFieldForm(input)

\* a line with non-whitespace after the second 0 has been rejected
C4_Witness ==
    /\ Done("parse_line")
    /\ Len(Fields(input)) = 7
    /\ Fields(input)[5] = <<ZERO>>
    /\ Fields(input)[6] = <<ZERO>>
    /\ ~result.ok
    /\ result.kind = "Eof"

\* ------------------------------------------------------------------ C9
\* C9: every Mount parse_line returns has at least one option and no empty
\* option, and no accepted line has an empty piece (a leading, trailing or
\* doubled comma) in its options token.
C9_AtLeastOneOption ==
    (Done("parse_line") /\ result.ok) =>
        /\ Len(result.out.options) >= 1
        /\ \A k \in 1..Len(result.out.options) : result.out.options[k] # <<>>
        /\ Len(Fields(input)) >= 4
        /\ NoEmptyPiece(Fields(input)[4])

\* a line whose options token has an empty piece, well formed otherwise, has
\* been rejected
C9_Witness ==
    /\ Done("parse_line")
    /\ SixFieldForm(input)
    /\ DecodableFields(input)
    /\ ~NoEmptyPiece(Fields(input)[4])
    /\ ~result.ok

\* ----------------------------------------------------------------- C10
\* C10: parse_line_alternate and parse_line both fail or both succeed on
\* every line, and when they succeed they return the same (empty) remaining
\* input and equal Mounts.
C10_AlternateAgrees ==
    pc = {} =>
        /\ result.ok = altResult.ok
        /\ result.ok => /\ result.rest = altResult.rest
                        /\ result.rest = <<>>
                        /\ result.out = altResult.out

\* both parsers have accepted a line with an escaped field and two options
C10_Witness ==
    /\ pc = {}
    /\ result.ok
    /\ altResult.ok
    /\ altResult.out.mount_point = <<SP>>
    /\ Len(altResult.out.options) = 2

\* ------------------------------------------------------------------ C5
\* what next() returns for one item of the line source
Expected(item) ==
    IF item.read = "err" THEN SomeErr("io::Error")
    ELSE With(parse_line(item.line), LAMBDA parsed :
            IF parsed.ok THEN SomeOk(parsed.out) ELSE SomeErr("ParseError"))

\* what the k-th call of next() returns over the whole source
ExpectedAt(k) == IF k <= Len(source) THEN Expected(source[k]) ELSE None

\* C5: over a source of n items the calls of next() return n items and then
\* None, the i-th decided by the i-th source item alone: a read failure an
\* I/O error, a rejected line a ParseError, an accepted line its Mount; an
\* error neither ends the sequence nor changes a later item.
C5_ItemPerSourceItem ==
    \A k \in 1..(Len(ownOut) + Len(mutOut)) :
        With(ExpectedAt(k), LAMBDA expected :
            /\ k <= Len(ownOut) => ownOut[k] = expected
            /\ k <= Len(mutOut) => mutOut[k] = expected)

\* a read failure, a rejected line, an accepted line, then None
C5_Witness ==
    /\ Len(source) = 3
    /\ source[1] = ReadErr
    /\ source[2] = ReadOk(BadLine)
    /\ Len(ownOut) = 4
    /\ ownOut[1].err = "io::Error"
    /\ ownOut[2].err = "ParseError"
    /\ ownOut[3].tag = "Ok"
    /\ ownOut[4] = None

\* ------------------------------------------------------------------ C6
\* C6: over the same source items the owning and the borrowing iterator
\* return the same result at every call of next() both have made.
C6_OwningEqualsBorrowing ==
    \A k \in 1..Len(ownOut) : k <= Len(mutOut) => ownOut[k] = mutOut[k]

\* both have returned a Mount, a ParseError, an I/O error and None
C6_Witness ==
    /\ Len(ownOut) = 4
    /\ Len(mutOut) = 4
    /\ {ownOut[k].tag : k \in 1..4} = {"Ok", "Err", "None"}
    /\ {mutOut[k].err : k \in 1..4} = {"none", "ParseError", "io::Error"}

\* ------------------------------------------------------------------ C7
RECURSIVE Sum(_)
Sum(ns) == IF Len(ns) = 0 THEN 0 ELSE Head(ns) + Sum(Tail(ns))

\* what n calls of next() on one MountsIteratorMut return, from position pos
RECURSIVE SingleIterator(_, _)
SingleIterator(pos, n) ==
    IF n = 0 THEN <<>>
    ELSE With(MountsIteratorMut_next(source, pos), LAMBDA r :
            <<r.ret>> \o SingleIterator(r.pos, n - 1))

\* C7: each call of next() on a borrowing iterator takes exactly one item
\* from the source (none when it is exhausted), and however the calls are
\* split across borrowing iterators created one after another, the reader is
\* left after the items returned and the items returned are those one single
\* iterator returns.
C7_BorrowersResume ==
    /\ Len(consumed) = Len(mutOut)
    /\ \A k \in 1..Len(mutOut) :
           consumed[k] = IF mutOut[k].tag = "None" THEN 0 ELSE 1
    /\ mutPos = 1 + Sum(consumed)
    /\ mutOut = SingleIterator(1, Len(mutOut))

\* two borrowing iterators have each returned an item and been dropped
C7_Witness ==
    /\ mutState = "mounts"
    /\ iterCount = 2
    /\ mutBy = {1, 2}
    /\ Len(mutOut) = 3
    /\ \A k \in 1..3 : mutOut[k].tag # "None"

\* ------------------------------------------------------------------ C8
HasNone(chars, str) == \A k \in 1..Len(str) : str[k] \notin chars

\* no field of m holds one of chars
FieldsFree(chars, m) ==
    /\ HasNone(chars, m.device)
    /\ HasNone(chars, m.mount_point)
    /\ HasNone(chars, m.file_system_type)
    /\ \A k \in 1..Len(m.options) : HasNone(chars, m.options[k])

Parens == {"(", ")", COMMA}

\* C8 as claimed: two Mounts parse_line returned whose fields hold none of
\* ( ) , and that Display renders to the same string are equal.
C8_AsClaimed ==
    \A j \in 1..Len(printed), k \in 1..Len(printed) :
        (/\ FieldsFree(Parens, ownOut[j].mount)
         /\ FieldsFree(Parens, ownOut[k].mount)
         /\ printed[j] = printed[k]) => ownOut[j].mount = ownOut[k].mount

NoSpaceInPaths(m) == HasNone({SP}, m.device) /\ HasNone({SP}, m.mount_point)

\* C8, amended: two Mounts parse_line returned whose fields hold none of
\* ( ) , and whose device and mount_point hold no space, and that Display
\* renders to the same string, are equal.
C8_DisplayDeterminesMount ==
    \A j \in 1..Len(printed), k \in 1..Len(printed) :
        (/\ FieldsFree(Parens, ownOut[j].mount)
         /\ FieldsFree(Parens, ownOut[k].mount)
         /\ NoSpaceInPaths(ownOut[j].mount)
         /\ NoSpaceInPaths(ownOut[k].mount)
         /\ printed[j] = printed[k]) => ownOut[j].mount = ownOut[k].mount

\* two such Mounts that differ only in how the same option characters are
\* split have been printed, to different strings
C8_Witness ==
    /\ Len(printed) = 2
    /\ FieldsFree(Parens, ownOut[1].mount) /\ NoSpaceInPaths(ownOut[1].mount)
    /\ FieldsFree(Parens, ownOut[2].mount) /\ NoSpaceInPaths(ownOut[2].mount)
    /\ ownOut[1].mount.options = <<<<"a", SP, "a">>, A1>>
    /\ ownOut[2].mount.options = <<A1, <<"a", SP, "a">>>>
    /\ printed[1] # printed[2]

====
